---- MODULE Spec2Model ----
(***************************************************************************)
(* Model of the RGB to Z raster tool (src/RGB-to-Z.py): the RgbRange class, *)
(* create_rgb_range, return_z_value, calculate_cdf and the histogram        *)
(* equalise block of the script body.                                       *)
(*                                                                          *)
(* Python floats are IEEE-754 binary64 values.  They are modelled exactly:  *)
(* a Double is a sign, an integer part and a sequence of fraction bits,     *)
(* and every arithmetic operation computes the exact result and rounds it   *)
(* to Prec significant bits, ties to even.                                  *)
(***************************************************************************)
EXTENDS Integers, Sequences, FiniteSets, TLC

\* Significant bits of a Python float (binary64).
Prec == 53

(***************************************************************************)
(* binary64 arithmetic                                                      *)
(***************************************************************************)
Abs(absn) == IF absn < 0 THEN 0 - absn ELSE absn

RECURSIVE BitLen(_)
\* Number of binary digits of a natural number (0 for 0).
BitLen(bln) == IF bln = 0 THEN 0 ELSE 1 + BitLen(bln \div 2)

\* The first position of bit fpv in fps, Len(fps) + 1 when there is none.
FirstPos(fps, fpv) ==
  CHOOSE fpi \in 1..(Len(fps) + 1) :
    /\ fpi = Len(fps) + 1 \/ fps[fpi] = fpv
    /\ \A fpj \in 1..(fpi - 1) : fps[fpj] # fpv

\* The last position of bit lpv in lps, 0 when there is none.
LastPos(lps, lpv) ==
  Len(lps) - (CHOOSE lpk \in 0..Len(lps) :
                /\ lpk = Len(lps) \/ lps[Len(lps) - lpk] = lpv
                /\ \A lpj \in (Len(lps) - lpk + 1)..Len(lps) : lps[lpj] # lpv)

\* Number of zero bits before the first one bit of a bit sequence.
LeadingZeros(lzs) == FirstPos(lzs, 1) - 1

\* A fraction without its trailing zero bits.
StripZeros(szs) == SubSeq(szs, 1, LastPos(szs, 1))

\* The Double of sign mkneg and magnitude mkip + 0.mkfr (zero is unsigned).
MkDouble(mkneg, mkip, mkfr) ==
  LET mkf == StripZeros(mkfr)
  IN  [neg |-> mkneg /\ ~(mkip = 0 /\ mkf = <<>>), ip |-> mkip, fr |-> mkf]

\* Adds one unit in the last place of a fraction: [bits, carry].
IncBits(incs) ==
  IF LastPos(incs, 0) = 0 THEN [bits |-> <<>>, carry |-> 1]
  ELSE [bits |-> SubSeq(incs, 1, LastPos(incs, 0) - 1) \o <<1>>, carry |-> 0]

\* The exact magnitude rpip + 0.rpfr rounded to Prec significant bits, round
\* half to even.
RoundPrec(rpneg, rpip, rpfr) ==
  LET keep == IF rpip > 0 THEN Prec - BitLen(rpip)
              ELSE LeadingZeros(rpfr) + Prec
  IN  IF Len(rpfr) <= keep THEN MkDouble(rpneg, rpip, rpfr)
      ELSE LET head   == SubSeq(rpfr, 1, keep)
               guard  == rpfr[keep + 1]
               sticky == \E rpj \in (keep + 2)..Len(rpfr) : rpfr[rpj] = 1
               lsb    == IF keep = 0 THEN rpip % 2 ELSE rpfr[keep]
               up     == guard = 1 /\ (sticky \/ lsb = 1)
               inc    == IncBits(head)
           IN  IF up THEN MkDouble(rpneg, rpip + inc.carry, inc.bits)
               ELSE MkDouble(rpneg, rpip, head)

\* float(n) for an integer n below 2^Prec.
FromInt(fin) == MkDouble(fin < 0, Abs(fin), <<>>)

\* Bits of a division step: the cbw binary digits of cbq, most significant
\* first.
ChunkBits(cbq, cbw) == [cbi \in 1..cbw |-> (cbq \div 2^(cbw - cbi)) % 2]

RECURSIVE DivBits(_, _, _)
\* Long division, eight bits a step: the first dbn fraction bits of
\* dbr / dbb (0 <= dbr < dbb), then one more bit 1 if a remainder is left
\* (the sticky bit).
DivBits(dbr, dbb, dbn) ==
  IF dbr = 0 THEN <<>>
  ELSE IF dbn = 0 THEN <<1>>
  ELSE LET dbw == IF dbn < 8 THEN dbn ELSE 8
           dbq == (dbr * 2^dbw) \div dbb
       IN  ChunkBits(dbq, dbw) \o DivBits((dbr * 2^dbw) % dbb, dbb, dbn - dbw)

\* Zero bits before the first one bit of the binary fraction lfr / lfb.
LeadingFractionZeros(lfr, lfb) ==
  CHOOSE lfk \in 0..BitLen(lfb) :
    /\ lfr * 2^(lfk + 1) >= lfb
    /\ \A lfj \in 0..(lfk - 1) : lfr * 2^(lfj + 1) < lfb

\* float(fda) / float(fdb) for integers fda and fdb # 0.
FDiv(fda, fdb) ==
  LET fdip == Abs(fda) \div Abs(fdb)
      fdr  == Abs(fda) % Abs(fdb)
      fdn  == IF fdip > 0 THEN Prec + 1 - BitLen(fdip)
              ELSE IF fdr = 0 THEN 0
              ELSE LeadingFractionZeros(fdr, Abs(fdb)) + Prec + 1
      fdfr == DivBits(fdr, Abs(fdb), fdn)
  IN  RoundPrec((fda < 0) # (fdb < 0), fdip, fdfr)

RECURSIVE MulBits(_, _, _)
\* A fraction times a natural number mbn plus a carry mbc coming in at its
\* last place: [bits, carry], carry into the integer part.  The low half is
\* computed first, its carry goes into the high half.
MulBits(mbs, mbn, mbc) ==
  IF mbs = <<>> THEN [bits |-> <<>>, carry |-> mbc]
  ELSE IF Len(mbs) = 1
       THEN [bits  |-> <<(mbs[1] * mbn + mbc) % 2>>,
             carry |-> (mbs[1] * mbn + mbc) \div 2]
  ELSE LET mbh  == Len(mbs) \div 2
           mblo == MulBits(SubSeq(mbs, mbh + 1, Len(mbs)), mbn, mbc)
       IN  IF mblo.carry < 0 THEN mblo
           ELSE LET mbhi == MulBits(SubSeq(mbs, 1, mbh), mbn, mblo.carry)
                IN  [bits |-> mbhi.bits \o mblo.bits, carry |-> mbhi.carry]

\* fmx * fmn for a Double fmx and an integer fmn.
FMulInt(fmx, fmn) ==
  LET fmm == MulBits(fmx.fr, Abs(fmn), 0)
  IN  RoundPrec(fmx.neg # (fmn < 0), fmx.ip * Abs(fmn) + fmm.carry, fmm.bits)

\* 1 - 0.cs for a fraction cs that is not zero.
Complement(cs) == IncBits([ci \in 1..Len(cs) |-> 1 - cs[ci]]).bits

\* The exact sum eax + ean of a Double eax and an integer ean, not rounded.
ExactAddInt(eax, ean) ==
  IF ean = 0 THEN eax
  ELSE IF eax.neg = (ean < 0) \/ (eax.ip = 0 /\ eax.fr = <<>>)
       THEN MkDouble(ean < 0, eax.ip + Abs(ean), eax.fr)
  ELSE IF eax.ip >= Abs(ean) THEN MkDouble(eax.neg, eax.ip - Abs(ean), eax.fr)
  ELSE IF eax.fr = <<>> THEN MkDouble(ean < 0, Abs(ean) - eax.ip, <<>>)
  ELSE MkDouble(ean < 0, Abs(ean) - eax.ip - 1, Complement(eax.fr))

\* fax + fan for a Double fax and an integer fan.
FAddInt(fax, fan) ==
  LET fae == ExactAddInt(fax, fan)
  IN  RoundPrec(fae.neg, fae.ip, fae.fr)

FNeg(fnx) == MkDouble(~fnx.neg, fnx.ip, fnx.fr)

FAbs(fbx) == MkDouble(FALSE, fbx.ip, fbx.fr)

\* Bit bai of a fraction, zero beyond its end.
BitAt(bas, bai) == IF bai <= Len(bas) THEN bas[bai] ELSE 0

\* 0.bls < 0.blt for two fractions.
BitsLess(bls, blt) ==
  LET bln == IF Len(bls) > Len(blt) THEN Len(bls) ELSE Len(blt)
      bld == CHOOSE bli \in 1..(bln + 1) :
               /\ bli = bln + 1 \/ BitAt(bls, bli) # BitAt(blt, bli)
               /\ \A blj \in 1..(bli - 1) : BitAt(bls, blj) = BitAt(blt, blj)
  IN  bld <= bln /\ BitAt(bls, bld) < BitAt(blt, bld)

MagLess(mlx, mly) ==
  mlx.ip < mly.ip \/ (mlx.ip = mly.ip /\ BitsLess(mlx.fr, mly.fr))

\* flx < fly for two Doubles.
FLess(flx, fly) ==
  IF flx.neg /\ ~fly.neg THEN TRUE
  ELSE IF ~flx.neg /\ fly.neg THEN FALSE
  ELSE IF flx.neg THEN MagLess(fly, flx) ELSE MagLess(flx, fly)

FLeq(fqx, fqy) == ~FLess(fqy, fqx)

\* Python 2 round(x): the nearest integer, halves away from zero.
PyRound(prx) ==
  LET prm == prx.ip + (IF prx.fr # <<>> /\ prx.fr[1] = 1 THEN 1 ELSE 0)
  IN  IF prx.neg THEN 0 - prm ELSE prm

(***************************************************************************)
(* Bounds of the model                                                      *)
(***************************************************************************)
\* Largest channel value of a pixel and of a breakpoint of the model.
MaxChan == 7

\* Largest z value of a breakpoint of the model.
MaxZ == 29

\* Largest number of lines of the text file.
MaxLines == 3

\* Number of bins of a cumulative sum handed to calculate_cdf.
NumBins == 3

\* Largest value of such a cumulative sum.
MaxCount == 3

\* Largest width and height of the image handed to calculate_cdf.
MaxSide == 2

\* Largest number of levels handed to calculate_cdf.
MaxLevels == 5

\* Intensity levels of a channel in the histogram equalise block (the 256
\* of np.arange(0, 256), scaled down).
NumLevels == 4

(***************************************************************************)
(* The text file and its parsing (create_rgb_range)                         *)
(***************************************************************************)
Digits == <<"0", "1", "2", "3", "4", "5", "6", "7", "8", "9">>

IsDigit(c) == \E d \in 1..10 : Digits[d] = c

DigitVal(c) == (CHOOSE d \in 1..10 : Digits[d] = c) - 1

\* x.strip().split(): the maximal runs of non-blank characters of a line.
Split(line) ==
  LET starts == {i \in 1..Len(line) :
                   line[i] # " " /\ (i = 1 \/ line[i - 1] = " ")}
      nth(k)  == CHOOSE i \in starts : Cardinality({j \in starts : j < i}) = k - 1
      stop(i) == CHOOSE e \in i..Len(line) :
                   /\ e = Len(line) \/ line[e + 1] = " "
                   /\ \A j \in i..e : line[j] # " "
  IN  [k \in 1..Cardinality(starts) |-> SubSeq(line, nth(k), stop(nth(k)))]

\* A token without its sign.
Unsigned(tok) ==
  IF tok # <<>> /\ tok[1] \in {"-", "+"} THEN Tail(tok) ELSE tok

\* Whether int(tok) returns: an optional sign, then decimal digits.
IsInt(tok) ==
  /\ Unsigned(tok) # <<>>
  /\ \A i \in 1..Len(Unsigned(tok)) : IsDigit(Unsigned(tok)[i])

RECURSIVE DigitsValue(_)
DigitsValue(ds) ==
  IF ds = <<>> THEN 0
  ELSE 10 * DigitsValue(SubSeq(ds, 1, Len(ds) - 1)) + DigitVal(ds[Len(ds)])

\* int(tok) for a token IsInt accepts.
int(tok) ==
  IF tok[1] = "-" THEN 0 - DigitsValue(Unsigned(tok))
  ELSE DigitsValue(Unsigned(tok))

(***************************************************************************)
(* class RgbRange                                                           *)
(***************************************************************************)
\* Python's None, and a value that is not None.
None == <<>>

Some(v) == <<v>>

\* sorted(x) for a pair x.
Sorted2(a, b) == IF a <= b THEN <<a, b>> ELSE <<b, a>>

\* RgbRange.__init__
RgbRange(rgb_min, rgb_max, z_min, z_max) ==
  [rgb_min   |-> rgb_min,
   rgb_max   |-> rgb_max,
   z_min     |-> z_min,
   z_max     |-> z_max,
   _z_range  |-> Abs(z_max - z_min),
   red       |-> Sorted2(rgb_max[1], rgb_min[1]),
   green     |-> Sorted2(rgb_max[2], rgb_min[2]),
   blue      |-> Sorted2(rgb_max[3], rgb_min[3]),
   rgb_range |-> <<Abs(rgb_max[1] - rgb_min[1]),
                   Abs(rgb_max[2] - rgb_min[2]),
                   Abs(rgb_max[3] - rgb_min[3])>>,
   _z_value           |-> None,
   _spectral_position |-> None,
   _largest_range     |-> None,
   _band              |-> None]

\* A membership test that looks at the red channel only.
in_range_red(self, rgb) ==
  self.red[1] <= rgb[1] /\ rgb[1] <= self.red[2]

\* RgbRange.in_range
in_range(self, rgb) ==
  /\ self.red[1] <= rgb[1] /\ rgb[1] <= self.red[2]
  /\ self.green[1] <= rgb[2] /\ rgb[2] <= self.green[2]
  /\ self.blue[1] <= rgb[3] /\ rgb[3] <= self.blue[2]

\* max(list) of a list of three numbers.
Max3(s) ==
  IF s[1] >= s[2] /\ s[1] >= s[3] THEN s[1]
  ELSE IF s[2] >= s[3] THEN s[2] ELSE s[3]

\* The last position of v, counted from 0.
IndexLast(s, v) == LastPos(s, v) - 1

\* list.index(v): the first position of v, counted from 0.
Index(s, v) == FirstPos(s, v) - 1

\* An rgb_to_z that keeps the band an earlier call has left in _band.
rgb_to_z_cached(self, rgb) ==
  LET dev  == <<Abs(self.rgb_min[1] - rgb[1]), Abs(self.rgb_min[2] - rgb[2]),
                Abs(self.rgb_min[3] - rgb[3])>>
      band == IF self._band # None THEN self._band[1]
              ELSE FirstPos(dev, Max3(dev)) - 1
      span == self.rgb_range[band + 1]
      val  == IF span = 0 THEN FromInt(self.z_min)
              ELSE FAddInt(FMulInt(FDiv(self._z_range, span), dev[band + 1]),
                           self.z_min)
      s4   == [self EXCEPT !._spectral_position = Some(dev),
                           !._largest_range = Some(dev[band + 1]),
                           !._band = Some(band),
                           !._z_value = Some(val)]
  IN  [self |-> s4, ret |-> Some(PyRound(val)), raised |-> "none"]

\* An rgb_to_z that answers z_max where the pixel is the base breakpoint.
rgb_to_z_top(self, rgb) ==
  LET dev  == <<Abs(self.rgb_min[1] - rgb[1]), Abs(self.rgb_min[2] - rgb[2]),
                Abs(self.rgb_min[3] - rgb[3])>>
      band == FirstPos(dev, Max3(dev)) - 1
      span == self.rgb_range[band + 1]
      val  == IF span = 0 THEN FromInt(self.z_max)
              ELSE FAddInt(FMulInt(FDiv(self._z_range, span), dev[band + 1]),
                           self.z_min)
      s4   == [self EXCEPT !._spectral_position = Some(dev),
                           !._largest_range = Some(dev[band + 1]),
                           !._band = Some(band),
                           !._z_value = Some(val)]
  IN  IF Max3(dev) # 0
      THEN [self |-> s4, ret |-> Some(PyRound(val)), raised |-> "none"]
      ELSE [self |-> s4, ret |-> Some(self.z_max), raised |-> "none"]

\* RgbRange.rgb_to_z: the object after the call, the value returned and the
\* exception raised.
rgb_to_z(self, rgb) ==
  LET s1 == [self EXCEPT !._spectral_position =
               Some(<<Abs(self.rgb_min[1] - rgb[1]),
                      Abs(self.rgb_min[2] - rgb[2]),
                      Abs(self.rgb_min[3] - rgb[3])>>)]
      s2 == [s1 EXCEPT !._largest_range = Some(Max3(s1._spectral_position[1]))]
      s3 == [s2 EXCEPT !._band =
               Some(Index(s2._spectral_position[1], s2._largest_range[1]))]
      span == s3.rgb_range[s3._band[1] + 1]
      s4 == [s3 EXCEPT !._z_value =
               Some(FAddInt(FMulInt(FDiv(s3._z_range, span),
                                    s3._largest_range[1]), s3.z_min))]
  IN  IF s3._largest_range[1] # 0
      THEN IF span = 0
           THEN [self |-> s3, ret |-> None, raised |-> "ZeroDivisionError"]
           ELSE [self |-> s4, ret |-> Some(PyRound(s4._z_value[1])),
                 raised |-> "none"]
      ELSE [self |-> s3, ret |-> Some(s3.z_min), raised |-> "none"]

(***************************************************************************)
(* create_rgb_range and return_z_value                                      *)
(***************************************************************************)
\* A create_rgb_range that refuses a file of fewer than two breakpoints.
create_rgb_range_two(file) ==
  LET lines == SelectSeq(file, LAMBDA x : \E i \in 1..Len(x) : x[i] # " ")
  IN  IF Len(lines) < 2
      THEN [rgb_ranges |-> <<>>, raised |-> "RangeError"]
      ELSE [rgb_ranges |->
              [i \in 1..(Len(lines) - 1) |->
                 LET a == [j \in 1..4 |-> int(Split(lines[i])[j])]
                     b == [j \in 1..4 |-> int(Split(lines[i + 1])[j])]
                 IN  RgbRange(SubSeq(a, 1, 3), SubSeq(b, 1, 3), a[4], b[4])],
            raised |-> "none"]

\* create_rgb_range: the list built when the function returned or raised,
\* and the exception raised.
create_rgb_range(file) ==
  LET split   == [i \in 1..Len(file) |-> Split(file[i])]
      content == SelectSeq(split, LAMBDA x : x # <<>>)
      numeric == \A i \in 1..Len(content) :
                   \A j \in 1..Len(content[i]) : IsInt(content[i][j])
      ints    == [i \in 1..Len(content) |->
                    [j \in 1..Len(content[i]) |-> int(content[i][j])]]
      pairs   == IF Len(ints) = 0 THEN 0 ELSE Len(ints) - 1
      \* The first pair whose z_min = item[3] or z_max = content[i + 1][3]
      \* is out of range, pairs + 1 when there is none.
      short   == CHOOSE i \in 1..(pairs + 1) :
                   /\ i = pairs + 1 \/ Len(ints[i]) < 4 \/ Len(ints[i + 1]) < 4
                   /\ \A j \in 1..(i - 1) : Len(ints[j]) >= 4 /\ Len(ints[j + 1]) >= 4
      built   == [i \in 1..(short - 1) |->
                    RgbRange(SubSeq(ints[i], 1, 3), SubSeq(ints[i + 1], 1, 3),
                             ints[i][4], ints[i + 1][4])]
  IN  IF ~numeric THEN [rgb_ranges |-> <<>>, raised |-> "ValueError"]
      ELSE IF short <= pairs THEN [rgb_ranges |-> built, raised |-> "IndexError"]
      ELSE [rgb_ranges |-> built, raised |-> "none"]

\* A return_z_value that answers from the last range that holds the pixel.
return_z_value_last(px, rgb_ranges, null_value) ==
  LET holds == {i \in 1..Len(rgb_ranges) : in_range(rgb_ranges[i], px)}
      last  == CHOOSE i \in holds : \A j \in holds : j <= i
      call  == rgb_to_z(rgb_ranges[last], px)
  IN  IF holds = {}
      THEN [rgb_ranges |-> rgb_ranges, ret |-> Some(null_value),
            raised |-> "none", matched |-> 0]
      ELSE [rgb_ranges |-> [rgb_ranges EXCEPT ![last] = call.self],
            ret |-> call.ret, raised |-> call.raised, matched |-> last]

\* return_z_value: the ranges after the call, the value returned, the
\* exception raised and the position of the range that answered (0: none).
return_z_value(px, rgb_ranges, null_value) ==
  LET first == CHOOSE i \in 1..(Len(rgb_ranges) + 1) :
                 /\ i = Len(rgb_ranges) + 1 \/ in_range(rgb_ranges[i], px)
                 /\ \A j \in 1..(i - 1) : ~in_range(rgb_ranges[j], px)
      call  == rgb_to_z(rgb_ranges[first], px)
  IN  IF first > Len(rgb_ranges)
      THEN [rgb_ranges |-> rgb_ranges, ret |-> Some(null_value),
            raised |-> "none", matched |-> 0]
      ELSE [rgb_ranges |-> [rgb_ranges EXCEPT ![first] = call.self],
            ret |-> call.ret, raised |-> call.raised, matched |-> first]

(***************************************************************************)
(* calculate_cdf                                                            *)
(***************************************************************************)
RECURSIVE ArgMinLast(_, _, _)
\* A scan that keeps the last of the smallest elements.
ArgMinLast(d, i, best) ==
  IF i > Len(d) THEN best
  ELSE ArgMinLast(d, i + 1, IF FLeq(d[i], d[best]) THEN i ELSE best)

RECURSIVE ArgMinFrom(_, _, _)
\* ndarray.argmin() of an array of Doubles: a scan that keeps the first of
\* the smallest elements (positions counted from 1 here).
ArgMinFrom(d, i, best) ==
  IF i > Len(d) THEN best
  ELSE ArgMinFrom(d, i + 1, IF FLess(d[i], d[best]) THEN i ELSE best)

\* A cdf_value that takes the scaled value off cdf_min.
cdf_value_off(hv, cdfmin, w, h, lv) ==
  FAddInt(FNeg(FMulInt(FDiv(hv, lv - 2), (w * h) - 1)), cdfmin)

\* cdf_value of calculate_cdf.
cdf_value(hv, cdfmin, w, h, lv) ==
  FAddInt(FMulInt(FDiv(hv, lv - 2), (w * h) - 1), cdfmin)

\* calculate_cdf: the bin returned, counted from 0.
calculate_cdf(hv, csum, cdfmin, w, h, lv) ==
  LET target == cdf_value(hv, cdfmin, w, h, lv)
      \* np.abs(cum_sum - cdf_value)
      diff   == [v \in 1..Len(csum) |->
                   FAbs(FNeg(FAddInt(target, 0 - csum[v])))]
  IN  ArgMinFrom(diff, 2, 1) - 1

(***************************************************************************)
(* The histogram equalise block of the script                               *)
(***************************************************************************)
\* np.histogram(a, bins)[0] for increasing integer bin edges: bin k counts
\* the values in [bins[k], bins[k+1]), the last bin also its right edge.
histogram_counts(a, bins) ==
  [k \in 1..(Len(bins) - 1) |->
     Cardinality({i \in 1..Len(a) :
        /\ bins[k] <= a[i]
        /\ \/ a[i] < bins[k + 1]
           \/ k = Len(bins) - 1 /\ a[i] = bins[k + 1]})]

\* np.histogram(a, bins): the tuple (hist, bin_edges).
histogram(a, bins) == <<histogram_counts(a, bins), bins>>

RECURSIVE SumTo(_, _)
SumTo(s, n) == IF n = 0 THEN 0 ELSE SumTo(s, n - 1) + s[n]

\* np.cumsum
cumsum(s) == [k \in 1..Len(s) |-> SumTo(s, k)]

\* np.arange(0, n)
arange(n) == [k \in 1..n |-> k - 1]

(***************************************************************************)
(* State                                                                    *)
(***************************************************************************)
VARIABLES
  \* The script from create_rgb_range to the return_z_value calls.
  text_file,   \* the lines of rgb_text_file, each a sequence of characters
  no_data,     \* the NoData value of the tool parameters
  pc,          \* where the script is
  ranges,      \* the list create_rgb_range returned
  constructed, \* the RgbRange objects create_rgb_range constructed
  raised,      \* the exception that ended the script, "none" if none
  handler,     \* the except clause that caught it
  pixel,       \* the pixel of the last return_z_value call
  z,           \* the value the last return_z_value call returned
  matched,     \* the position of the range that answered it (0: none)
  overwrote,   \* whether the call replaced other scratch values in it
  \* A caller of calculate_cdf.
  cum_sum, cdf_min, width, height, levels,
  histogram_value, \* the argument of the last call
  original_value,  \* the value it returned
  \* The histogram equalise block.
  rgb_raster_array, histogram_method,
  red_histogram, green_histogram, blue_histogram,
  red_cum_sum, green_cum_sum, blue_cum_sum

scriptVars == <<text_file, no_data, pc, ranges, constructed, raised, handler,
                pixel, z, matched, overwrote>>

cdfVars == <<cum_sum, cdf_min, width, height, levels, histogram_value,
             original_value>>

histVars == <<rgb_raster_array, histogram_method, red_histogram,
              green_histogram, blue_histogram, red_cum_sum, green_cum_sum,
              blue_cum_sum>>

vars == <<scriptVars, cdfVars, histVars>>

\* The except clause of the script that catches an exception.
Handler(exc) == IF exc = "FileFormat" THEN "except FileFormat" ELSE "except"

(***************************************************************************)
(* Inputs                                                                   *)
(***************************************************************************)
RECURSIVE NatStr(_)
\* The decimal digits of a natural number.
NatStr(n) ==
  IF n < 10 THEN <<Digits[n + 1]>>
  ELSE NatStr(n \div 10) \o <<Digits[(n % 10) + 1]>>

Str(n) == IF n < 0 THEN <<"-">> \o NatStr(0 - n) ELSE NatStr(n)

\* A line of the text file: the fields, one blank between them.
Line(fields) ==
  IF Len(fields) = 0 THEN <<>>
  ELSE Str(fields[1]) \o
       (IF Len(fields) >= 2 THEN <<" ">> \o Str(fields[2]) ELSE <<>>) \o
       (IF Len(fields) >= 3 THEN <<" ">> \o Str(fields[3]) ELSE <<>>) \o
       (IF Len(fields) >= 4 THEN <<" ">> \o Str(fields[4]) ELSE <<>>) \o
       (IF Len(fields) >= 5 THEN <<" ">> \o Str(fields[5]) ELSE <<>>)

Half == MaxChan \div 2

\* The breakpoints of the ramps of the model.
Breakpoints ==
  { <<0, 0, 0, 0>>,
    <<MaxChan, MaxChan, MaxChan, MaxZ>>,
    <<MaxChan, Half, 0, 0>>,
    <<0, 0, 0, MaxZ>>,
    <<0 - 1, MaxChan, 0, MaxZ>> }

\* Lines of four integers.
RampLines == {Line(b) : b \in Breakpoints}

\* Lines of a text file that need not be formatted correctly: two good
\* lines, a line of three fields, a line of five fields, a line with a field
\* that is no number, and a blank line.
AnyLines ==
  { Line(<<0, 0, 0, 0>>),
    Line(<<MaxChan, MaxChan, MaxChan, MaxZ>>),
    Line(<<MaxChan, 0, 0>>),
    Line(<<MaxChan, 0, 0, MaxZ, 1>>),
    <<"0", " ", "x", " ", "0", " ", "0">>,
    <<" ">> }

Files(lines) == UNION {[1..n -> lines] : n \in 0..MaxLines}

\* The pixels of the raster.
Pixels ==
  { <<0, 0, 0>>, <<MaxChan, MaxChan, MaxChan>>, <<MaxChan, Half, 0>>,
    <<Half, Half, 0>>, <<Half, Half, Half>>, <<0, MaxChan, 0>> }

\* The values of a cumulative sum of the model.
CumValues == {0, 1, MaxCount}

\* The pixel arrays of a channel: a 2 x 2 raster, row by row.
ChannelArrays ==
  {<<a, a, b, b>> : a \in 0..(NumLevels - 1), b \in 0..(NumLevels - 1)}

InitScript(files) ==
  /\ text_file \in files
  /\ no_data \in {0 - 1}
  /\ pc = "start"
  /\ ranges = <<>>
  /\ constructed = 0
  /\ raised = "none"
  /\ handler = "none"
  /\ pixel = None
  /\ z = None
  /\ matched = 0
  /\ overwrote = FALSE

\* The script at a place where the text file plays no part.
ScriptAt(place) ==
  /\ text_file = <<>>
  /\ no_data = 0 - 1
  /\ pc = place
  /\ ranges = <<>>
  /\ constructed = 0
  /\ raised = "none"
  /\ handler = "none"
  /\ pixel = None
  /\ z = None
  /\ matched = 0
  /\ overwrote = FALSE

InitCdf ==
  /\ cum_sum \in [1..NumBins -> CumValues]
  /\ cdf_min \in {0, 1}
  /\ width \in 1..MaxSide
  /\ height \in 1..MaxSide
  /\ levels \in {3, MaxLevels}
  /\ histogram_value = None
  /\ original_value = None

IdleCdf ==
  /\ cum_sum = <<>>
  /\ cdf_min = 0
  /\ width = 0
  /\ height = 0
  /\ levels = 0
  /\ histogram_value = None
  /\ original_value = None

InitHist ==
  /\ rgb_raster_array \in [1..3 -> ChannelArrays]
  /\ histogram_method \in {"Histogram Equalised", "Original"}
  /\ red_histogram = None
  /\ green_histogram = None
  /\ blue_histogram = None
  /\ red_cum_sum = None
  /\ green_cum_sum = None
  /\ blue_cum_sum = None

IdleHist ==
  /\ rgb_raster_array = <<>>
  /\ histogram_method = "Original"
  /\ red_histogram = None
  /\ green_histogram = None
  /\ blue_histogram = None
  /\ red_cum_sum = None
  /\ green_cum_sum = None
  /\ blue_cum_sum = None

(***************************************************************************)
(* Steps of the script                                                      *)
(***************************************************************************)
\* ranges = create_rgb_range(rgb_text_file), inside the script's try.
CreateRgbRange ==
  /\ pc = "start"
  /\ LET r == create_rgb_range(text_file)
     IN  /\ constructed' = Len(r.rgb_ranges)
         /\ raised' = r.raised
         /\ IF r.raised = "none"
            THEN /\ ranges' = r.rgb_ranges
                 /\ pc' = "ranges_created"
                 /\ handler' = "none"
            ELSE /\ ranges' = ranges
                 /\ pc' = "failed"
                 /\ handler' = Handler(r.raised)
  /\ UNCHANGED <<text_file, no_data, pixel, z, matched, overwrote>>
  /\ UNCHANGED <<cdfVars, histVars>>

\* One call return_z_value(pixel, ranges, no_data) of apply_along_axis.
ReturnZValue(px) ==
  /\ pc = "ranges_created"
  /\ LET r == return_z_value(px, ranges, no_data)
     IN  /\ ranges' = r.rgb_ranges
         /\ pixel' = Some(px)
         /\ z' = r.ret
         /\ matched' = r.matched
         /\ overwrote' =
              /\ r.matched > 0
              /\ ranges[r.matched]._spectral_position # None
              /\ ranges[r.matched]._spectral_position #
                   r.rgb_ranges[r.matched]._spectral_position
         /\ raised' = r.raised
         /\ IF r.raised = "none"
            THEN pc' = pc /\ handler' = handler
            ELSE pc' = "failed" /\ handler' = Handler(r.raised)
  /\ UNCHANGED <<text_file, no_data, constructed>>
  /\ UNCHANGED <<cdfVars, histVars>>

Lookup == \E px \in Pixels : ReturnZValue(px)

\* x[...] = calculate_cdf(x, cum_sum, cdf_min, width, height, levels)
CalculateCdf(x) ==
  /\ histogram_value' = Some(x)
  /\ original_value' =
       Some(calculate_cdf(x, cum_sum, cdf_min, width, height, levels))
  /\ UNCHANGED <<cum_sum, cdf_min, width, height, levels>>
  /\ UNCHANGED <<scriptVars, histVars>>

Invert == \E x \in 0..(MaxLevels - 1) : CalculateCdf(x)

\* if histogram_method == "Histogram Equalised": the three np.histogram
\* calls over bins = np.arange(0, 256).
Histograms ==
  /\ pc = "array"
  /\ histogram_method = "Histogram Equalised"
  /\ red_histogram' = Some(histogram(rgb_raster_array[1], arange(NumLevels)))
  /\ green_histogram' = Some(histogram(rgb_raster_array[2], arange(NumLevels)))
  /\ blue_histogram' = Some(histogram(rgb_raster_array[3], arange(NumLevels)))
  /\ pc' = "histograms"
  /\ UNCHANGED <<rgb_raster_array, histogram_method, red_cum_sum,
                 green_cum_sum, blue_cum_sum>>
  /\ UNCHANGED <<text_file, no_data, ranges, constructed, raised, handler,
                 pixel, z, matched, overwrote>>
  /\ UNCHANGED cdfVars

\* The three np.cumsum lines: red_histogram[0], red_histogram[1] and
\* red_histogram[2]; the tuple np.histogram returns has two elements, the
\* third line raises IndexError.
CumulativeSums ==
  /\ pc = "histograms"
  /\ red_cum_sum' = Some(cumsum(red_histogram[1][1]))
  /\ green_cum_sum' = Some(cumsum(red_histogram[1][2]))
  /\ IF Len(red_histogram[1]) >= 3
     THEN /\ blue_cum_sum' = Some(cumsum(red_histogram[1][3]))
          /\ pc' = "cumulative_sums"
          /\ UNCHANGED <<raised, handler>>
     ELSE /\ blue_cum_sum' = blue_cum_sum
          /\ pc' = "failed"
          /\ raised' = "IndexError"
          /\ handler' = Handler("IndexError")
  /\ UNCHANGED <<rgb_raster_array, histogram_method, red_histogram,
                 green_histogram, blue_histogram>>
  /\ UNCHANGED <<text_file, no_data, ranges, constructed, pixel, z, matched,
                 overwrote>>
  /\ UNCHANGED cdfVars

\* histogram_method is not "Histogram Equalised": the block is skipped.
SkipEqualise ==
  /\ pc = "array"
  /\ histogram_method # "Histogram Equalised"
  /\ pc' = "stack"
  /\ UNCHANGED <<text_file, no_data, ranges, constructed, raised, handler,
                 pixel, z, matched, overwrote>>
  /\ UNCHANGED <<cdfVars, histVars>>

(***************************************************************************)
(* Specifications                                                           *)
(***************************************************************************)
\* The script on text files of lines of four integers.
Init == InitScript(Files(RampLines)) /\ IdleCdf /\ IdleHist

Next == CreateRgbRange \/ Lookup

Spec == Init /\ [][Next]_vars

\* The script on text files that need not be formatted correctly.
InitParse == InitScript(Files(AnyLines)) /\ IdleCdf /\ IdleHist

SpecParse == InitParse /\ [][Next]_vars

\* calculate_cdf on the arguments of a caller.
InitCalc == ScriptAt("invert") /\ InitCdf /\ IdleHist

NextCalc == Invert

SpecCdf == InitCalc /\ [][NextCalc]_vars

\* The histogram equalise block on the channels of a raster.
InitBlock == ScriptAt("array") /\ IdleCdf /\ InitHist

NextBlock == Histograms \/ CumulativeSums \/ SkipEqualise

SpecHist == InitBlock /\ [][NextBlock]_vars
(***************************************************************************)
(* Properties of create_rgb_range, return_z_value and rgb_to_z              *)
(***************************************************************************)
\* The breakpoint a line of RampLines was written from.
BreakpointOf(line) == CHOOSE b \in Breakpoints : Line(b) = line

\* The breakpoints of the text file, in input order.
FileBreakpoints == [i \in 1..Len(text_file) |-> BreakpointOf(text_file[i])]

\* The colour of a breakpoint.
Colour(b) == <<b[1], b[2], b[3]>>

\* The box of a range: per channel, the smaller and the larger of the two
\* breakpoint values.
Lower(r, c) == IF r.rgb_min[c] <= r.rgb_max[c] THEN r.rgb_min[c] ELSE r.rgb_max[c]

Upper(r, c) == IF r.rgb_min[c] <= r.rgb_max[c] THEN r.rgb_max[c] ELSE r.rgb_min[c]

Contains(r, px) == \A c \in 1..3 : Lower(r, c) <= px[c] /\ px[c] <= Upper(r, c)

\* The deviation of a pixel from the first breakpoint of a range.
Deviation(r, px) == [c \in 1..3 |-> Abs(px[c] - r.rgb_min[c])]

\* The largest deviation, and the first channel that attains it.
LargestDeviation(r, px) ==
  CHOOSE m \in {Deviation(r, px)[c] : c \in 1..3} :
    \A c \in 1..3 : Deviation(r, px)[c] <= m

Band(r, px) ==
  CHOOSE c \in 1..3 :
    /\ Deviation(r, px)[c] = LargestDeviation(r, px)
    /\ \A d \in 1..(c - 1) : Deviation(r, px)[d] # LargestDeviation(r, px)

ChannelSpan(r, c) == Upper(r, c) - Lower(r, c)

ZSpan(r) == Abs(r.z_max - r.z_min)

\* A return_z_value call has returned.
Answered == pc = "ranges_created" /\ pixel # None

\* C1 (as stated): building the table succeeds when there are at least two
\* breakpoints, every channel value is in [0,255] and every consecutive pair
\* has z_base <= z_top; otherwise it fails with a RangeError and returns no
\* table.
ValidRamp ==
  /\ Len(text_file) >= 2
  /\ \A i \in 1..Len(text_file) :
       \A c \in 1..3 : FileBreakpoints[i][c] \in 0..255
  /\ \A i \in 1..(Len(text_file) - 1) :
       FileBreakpoints[i][4] <= FileBreakpoints[i + 1][4]

C3_BaseExact ==
  Answered =>
    \A i \in 1..Len(ranges) :
      pixel[1] = ranges[i].rgb_min => z = Some(ranges[i].z_min)

\* C3 (amended): looking up the base breakpoint of range i is answered by
\* the first range whose box holds the colour, which is range i or an
\* earlier one.  It returns the z of the breakpoint when that range is range
\* i itself, and when it is the preceding range, the two breakpoints of
\* that range differ in colour and its z does not fall.
C3_BaseExactFirstMatch ==
  Answered =>
    \A i \in 1..Len(ranges) :
      pixel[1] = ranges[i].rgb_min =>
        /\ matched \in 1..i
        /\ matched = i => z = Some(ranges[i].z_min)
        /\ ( /\ i >= 2
             /\ matched = i - 1
             /\ ranges[i - 1].rgb_min # ranges[i - 1].rgb_max
             /\ ranges[i - 1].z_min <= ranges[i - 1].z_max )
           => z = Some(ranges[i].z_min)

\* The base breakpoint of the second range was looked up and the first range
\* answered with the z of that breakpoint.
C3_Witness ==
  /\ Answered
  /\ Len(ranges) = 2
  /\ pixel[1] = ranges[2].rgb_min
  /\ matched = 1
  /\ ranges[1].rgb_min # ranges[1].rgb_max
  /\ ranges[1].z_min < ranges[1].z_max
  /\ z = Some(ranges[2].z_min)

\* C4: a lookup returns what it returns as the first call on the table just
\* built, whatever lookups came before and whatever they left in the scratch
\* fields, and no lookup changes a defining attribute of a range.
FreshRanges == create_rgb_range(text_file).rgb_ranges

Defining(r) ==
  <<r.rgb_min, r.rgb_max, r.z_min, r.z_max, r.red, r.green, r.blue,
    r.rgb_range, r._z_range>>

C4_LookupPure ==
  pc = "ranges_created" =>
    /\ Len(ranges) = Len(FreshRanges)
    /\ \A i \in 1..Len(ranges) : Defining(ranges[i]) = Defining(FreshRanges[i])
    /\ pixel # None => z = return_z_value(pixel[1], FreshRanges, no_data).ret

\* The lookup replaced the scratch values an earlier lookup of another
\* pixel had left in the range.
C4_Witness ==
  /\ Answered
  /\ overwrote
  /\ matched > 0
  /\ LargestDeviation(ranges[matched], pixel[1]) # 0

\* C7: the value of a matched pixel is z_base when its largest deviation
\* from the first breakpoint is 0, and otherwise
\* dev[band] * (z_span / channel_span[band]) + z_base rounded to an integer,
\* band being the first channel that attains the largest deviation and the
\* spans those of the matched range.  The ramp (0,0,0,0), (255,255,255,100)
\* gives 100 for (255,0,0) and 0 for (0,0,0).
ExampleRamp == <<Line(<<0, 0, 0, 0>>), Line(<<255, 255, 255, 100>>)>>

ExampleLookup(px) ==
  return_z_value(px, create_rgb_range(ExampleRamp).rgb_ranges, no_data).ret

C7_Interpolation ==
  /\ ExampleLookup(<<255, 0, 0>>) = Some(100)
  /\ ExampleLookup(<<0, 0, 0>>) = Some(0)
  /\ (Answered /\ matched > 0) =>
       LET r    == ranges[matched]
           dev  == LargestDeviation(r, pixel[1])
           span == ChannelSpan(r, Band(r, pixel[1]))
       IN  IF dev = 0 THEN z = Some(r.z_min)
           ELSE /\ span # 0
                /\ z # None
                /\ 2 * Abs(z[1] * span - (dev * ZSpan(r) + r.z_min * span))
                     <= span

\* Two channels with different spans tie for the largest deviation, and the
\* two give different values.
C7_Witness ==
  /\ Answered
  /\ matched > 0
  /\ LET r == ranges[matched]
         b == Band(r, pixel[1])
     IN  /\ LargestDeviation(r, pixel[1]) # 0
         /\ \E c \in (b + 1)..3 :
              /\ Deviation(r, pixel[1])[c] = LargestDeviation(r, pixel[1])
              /\ ChannelSpan(r, c) # 0
              /\ 2 * Abs(z[1] * ChannelSpan(r, c)
                         - (LargestDeviation(r, pixel[1]) * ZSpan(r)
                            + r.z_min * ChannelSpan(r, c)))
                   > ChannelSpan(r, c)

\* C10 (as stated): for a pixel that in_range accepted, every channel
\* deviation is at most the span of the channel, so no division by zero is
\* reached, and the unrounded result lies in [z_min, z_min + |z_max - z_min|].
DeviationsBounded ==
  /\ raised # "ZeroDivisionError"
  /\ (Answered /\ matched > 0) =>
       /\ \A c \in 1..3 :
            Deviation(ranges[matched], pixel[1])[c]
              <= ranges[matched].rgb_range[c]
       /\ LargestDeviation(ranges[matched], pixel[1]) # 0 =>
            ranges[matched].rgb_range[Band(ranges[matched], pixel[1])] # 0

\* The unrounded result of the last call, when it interpolated.
Interpolated ==
  /\ Answered
  /\ matched > 0
  /\ LargestDeviation(ranges[matched], pixel[1]) # 0

Unrounded == ranges[matched]._z_value[1]

C10_UnroundedInRange ==
  /\ DeviationsBounded
  /\ Interpolated =>
       /\ FLeq(FromInt(ranges[matched].z_min), Unrounded)
       /\ FLeq(Unrounded,
               FromInt(ranges[matched].z_min + ZSpan(ranges[matched])))

\* C10 (amended): the deviations are bounded and no division by zero is
\* reached; the unrounded result is at least z_min, and the value returned,
\* the unrounded result rounded, is at most z_min + |z_max - z_min|.  The
\* unrounded result itself can exceed that bound by a rounding error of the
\* division.
C10_RoundedInRange ==
  /\ DeviationsBounded
  /\ Interpolated =>
       /\ FLeq(FromInt(ranges[matched].z_min), Unrounded)
       /\ z[1] >= ranges[matched].z_min
       /\ z[1] <= ranges[matched].z_min + ZSpan(ranges[matched])

\* A range with a channel of span 0 interpolated a pixel.
C10_Witness ==
  /\ Interpolated
  /\ \E c \in 1..3 : ranges[matched].rgb_range[c] = 0
  /\ z[1] > ranges[matched].z_min
(***************************************************************************)
(* Properties of the text file parser                                       *)
(***************************************************************************)
\* The lines of AnyLines that are malformed: not exactly four fields, or a
\* field that is no number.  A blank line is not counted, the parser drops
\* blank lines on purpose.
BadLines ==
  { Line(<<MaxChan, 0, 0>>),
    Line(<<MaxChan, 0, 0, MaxZ, 1>>),
    <<"0", " ", "x", " ", "0", " ", "0">> }

Malformed == \E i \in 1..Len(text_file) : text_file[i] \in BadLines

\* C6: a text file with a malformed line makes create_rgb_range raise
\* FileFormat before any RgbRange object is constructed; the line is never
\* silently accepted and never surfaces as another kind of error.
C6_MalformedRaisesFileFormat ==
  (pc # "start" /\ Malformed) =>
    /\ raised = "FileFormat"
    /\ handler = "except FileFormat"
    /\ constructed = 0

(***************************************************************************)
(* Properties of calculate_cdf                                              *)
(***************************************************************************)
NonDecreasing(s) == \A i \in 1..(Len(s) - 1) : s[i] <= s[i + 1]

\* calculate_cdf on the arguments of the state, for another equalised value.
CdfOf(e) == calculate_cdf(e, cum_sum, cdf_min, width, height, levels)

\* C5: for a non-decreasing cum_sum and fixed cdf_min, width, height and
\* levels > 2, calculate_cdf is non-decreasing in the equalised value: the
\* value returned for e1 is at most the value returned for any e2 >= e1.
C5_Monotone ==
  (original_value # None /\ NonDecreasing(cum_sum)) =>
    \A e2 \in 0..(MaxLevels - 1) :
      histogram_value[1] <= e2 => original_value[1] <= CdfOf(e2)

\* A larger equalised value gives a larger bin of a non-decreasing cum_sum.
C5_Witness ==
  /\ original_value # None
  /\ NonDecreasing(cum_sum)
  /\ \E e2 \in 0..(MaxLevels - 1) :
       histogram_value[1] < e2 /\ original_value[1] < CdfOf(e2)

\* The exact product of a Double and an integer.
ExactMulInt(x, n) ==
  LET m == MulBits(x.fr, Abs(n), 0)
  IN  MkDouble(x.neg # (n < 0), x.ip * Abs(n) + m.carry, m.bits)

\* The target of the last call: cdf_value as calculate_cdf computes it.
Target ==
  cdf_value(histogram_value[1], cdf_min, width, height, levels)

\* The target is (histogram_value / (levels - 2)) * (width * height - 1)
\* + cdf_min up to the rounding of the three operations: times levels - 2
\* it is within 2^-(Prec / 2) of the integer the exact formula gives.
TargetIsFormula ==
  LET exact == histogram_value[1] * ((width * height) - 1)
                 + cdf_min * (levels - 2)
      error == ExactAddInt(ExactMulInt(Target, levels - 2), 0 - exact)
  IN  /\ error.ip = 0
      /\ error.fr = <<>> \/ LeadingZeros(error.fr) >= Prec \div 2

\* The exact distance of bin k (counted from 1) from the target.
Distance(k) == FAbs(ExactAddInt(Target, 0 - cum_sum[k]))

\* C9: calculate_cdf returns the bin whose cum_sum is nearest the target
\* (histogram_value / (levels - 2)) * (width * height - 1) + cdf_min, the
\* lowest of the bins that attain the smallest distance, and the result is
\* a valid index of cum_sum.
C9_NearestBin ==
  original_value # None =>
    /\ TargetIsFormula
    /\ original_value[1] \in 0..(Len(cum_sum) - 1)
    /\ \A k \in 1..Len(cum_sum) :
         ~MagLess(Distance(k), Distance(original_value[1] + 1))
    /\ \A k \in 1..original_value[1] :
         MagLess(Distance(original_value[1] + 1), Distance(k))

\* Two bins with different cum_sum values are equally near the target; the
\* lower of the two was returned, and it is not the first bin.
C9_Witness ==
  /\ original_value # None
  /\ \E k \in (original_value[1] + 2)..Len(cum_sum) :
       /\ cum_sum[k] # cum_sum[original_value[1] + 1]
       /\ ~MagLess(Distance(original_value[1] + 1), Distance(k))
  /\ original_value[1] >= 1

(***************************************************************************)
(* Properties of the histogram equalise block                               *)
(***************************************************************************)
\* counts[v] = the number of pixels equal to v, one bin per level.
Counts(a) ==
  [b \in 1..NumLevels |-> Cardinality({i \in 1..Len(a) : a[i] = b - 1})]

RECURSIVE RunningSum(_, _)
RunningSum(s, k) == IF k = 0 THEN 0 ELSE RunningSum(s, k - 1) + s[k]

\* cumulative_sum[v] = the sum of counts[0..v].
CumulativeSum(a) == [b \in 1..NumLevels |-> RunningSum(Counts(a), b)]

\* C8: in the histogram equalised path the histogram state of each channel
\* is built from the pixel array of that channel: one bin per level with
\* counts[v] = the number of pixels equal to v, and cumulative_sum[v] = the
\* sum of counts[0..v].
C8_ChannelHistograms ==
  /\ pc = "histograms" =>
       /\ red_histogram[1][1] = Counts(rgb_raster_array[1])
       /\ green_histogram[1][1] = Counts(rgb_raster_array[2])
       /\ blue_histogram[1][1] = Counts(rgb_raster_array[3])
  /\ (histogram_method = "Histogram Equalised"
        /\ pc \notin {"array", "histograms"}) =>
       /\ raised = "none"
       /\ red_cum_sum = Some(CumulativeSum(rgb_raster_array[1]))
       /\ green_cum_sum = Some(CumulativeSum(rgb_raster_array[2]))
       /\ blue_cum_sum = Some(CumulativeSum(rgb_raster_array[3]))
====
